---- MODULE Spec2Model ----
(***************************************************************************)
(* State-machine model of the SmartCardLink client lifecycle, as           *)
(* implemented by the two server programs held in src/server.js:           *)
(*   "auth" - the authenticated variant (lines 1-679): JWT-protected admin *)
(*            routes, a persisted Log collection, statuses                 *)
(*            Pending/Processed/Active/Disabled/Deleted;                   *)
(*   "pino" - the pino variant (lines 680-1480): unauthenticated routes,   *)
(*            logging to the process log only, statuses                    *)
(*            Pending/Active/Suspended/Deleted.                            *)
(* Every route handler is an async function: it runs synchronously up to   *)
(* each await and yields there.  A handler is modelled as a process whose  *)
(* steps are the database / network operations it awaits, each step        *)
(* carrying the synchronous code that follows the await.  The arrival of a *)
(* request is merged with its first awaited operation.                     *)
(***************************************************************************)
EXTENDS Integers, Sequences, FiniteSets, Bags, TLC

(***************************************************************************)
(* Bounds of the model.                                                    *)
(***************************************************************************)
\* Total number of requests the servers receive in one behaviour.
MaxOps == 3

\* Requests that can be in flight at the same time (one slot each).
Procs == {1, 2}

(***************************************************************************)
(* Strings are sequences of one-character strings, so that slug derivation *)
(* is computed character by character as the code does.                    *)
(***************************************************************************)
Lowers == {"a", "b"}
Uppers == {"A", "B"}
Digits == {"0", "1", "2", "3", "4", "5", "6", "7", "8", "9"}

\* String.prototype.toLowerCase on one character.
ToLower(c) == CASE c = "A" -> "a" [] c = "B" -> "b" [] OTHER -> c

IsSpace(c) == c = " "

\* The empty string "" (falsy in JavaScript).
Empty == <<>>

RECURSIVE MapLower(_)
MapLower(s) == IF s = <<>> THEN <<>> ELSE <<ToLower(Head(s))>> \o MapLower(Tail(s))

\* String.prototype.trim: strip leading and trailing whitespace.
RECURSIVE TrimLeft(_)
TrimLeft(s) == IF s # <<>> /\ IsSpace(Head(s)) THEN TrimLeft(Tail(s)) ELSE s

RECURSIVE TrimRight(_)
TrimRight(s) ==
    IF s # <<>> /\ IsSpace(s[Len(s)]) THEN TrimRight(SubSeq(s, 1, Len(s) - 1)) ELSE s

Trim(s) == TrimRight(TrimLeft(s))

\* s.replace(/[^...]/g, ""): keep only the characters of the set keep.
RECURSIVE Keep(_, _)
Keep(s, keep) ==
    IF s = <<>> THEN <<>>
    ELSE (IF Head(s) \in keep THEN <<Head(s)>> ELSE <<>>) \o Keep(Tail(s), keep)

\* s.replace(/[seps]+/g, "-"): every maximal run of separator characters
\* becomes one hyphen.
RECURSIVE Collapse(_, _)
Collapse(s, seps) ==
    IF s = <<>> THEN <<>>
    ELSE IF Head(s) \in seps
         THEN IF Len(s) > 1 /\ s[2] \in seps
              THEN Collapse(Tail(s), seps)
              ELSE <<"-">> \o Collapse(Tail(s), seps)
         ELSE <<Head(s)>> \o Collapse(Tail(s), seps)

\* String.prototype.substring(0, n).
Substring0(s, n) == IF Len(s) <= n THEN s ELSE SubSeq(s, 1, n)

\* Longest slug base kept by generateUniqueSlug (.substring(0, 50)).
SlugMaxLen == 50

\* Collision counter value after which generateUniqueSlug gives up on
\* numeric suffixes (if (counter > 100)).
SlugMaxCounter == 100

\* Decimal rendering of a natural number (template literal `${counter}`).
DigitOf(d) == CASE d = 0 -> "0" [] d = 1 -> "1" [] d = 2 -> "2" [] d = 3 -> "3"
                [] d = 4 -> "4" [] d = 5 -> "5" [] d = 6 -> "6" [] d = 7 -> "7"
                [] d = 8 -> "8" [] OTHER -> "9"

RECURSIVE ToDecimal(_)
ToDecimal(n) == IF n < 10 THEN <<DigitOf(n)>> ELSE ToDecimal(n \div 10) \o <<DigitOf(n % 10)>>

\* `${baseSlug}-${counter}`
Suffixed(baseSlug, counter) == baseSlug \o <<"-">> \o ToDecimal(counter)

\* The base slug computed by generateUniqueSlug (pino variant):
\* name.toLowerCase().trim().replace(/[^a-z0-9\s-]/g, "")
\*     .replace(/[\s-]+/g, "-").substring(0, 50)
PinoBaseSlug(name) ==
    Substring0(Collapse(Keep(Trim(MapLower(name)), Lowers \cup Digits \cup {" ", "-"}),
                        {" ", "-"}),
               SlugMaxLen)

\* slugify(fullName, { lower: true, strict: true }) (authenticated variant):
\* the replacement character "-" is read as a space, strict mode removes
\* every character that is not a letter, a digit or whitespace, the result
\* is trimmed, runs of whitespace become "-", and the slug is lower-cased.
RECURSIVE HyphenToSpace(_)
HyphenToSpace(s) ==
    IF s = <<>> THEN <<>>
    ELSE <<IF Head(s) = "-" THEN " " ELSE Head(s)>> \o HyphenToSpace(Tail(s))

Slugify(name) ==
    MapLower(Collapse(Trim(Keep(HyphenToSpace(name),
                                Lowers \cup Uppers \cup Digits \cup {" "})),
                      {" "}))


(***************************************************************************)
(* Inputs.                                                                 *)
(***************************************************************************)
NameAB   == <<"A", " ", "b">>            \* "A b"    -> slug "a-b"
NameAB1  == <<"a", "-", "b", " ", "1">>  \* "a-b 1"  -> slug "a-b-1"
NameBang == <<"!">>                      \* "!"      -> slug ""
Names    == {NameAB, NameAB1, NameBang}

Phone == <<"5">>
Email == <<"e">>
Title == <<"t">>

\* Request bodies are records holding exactly the keys the request carries.
Has(body, key) == key \in DOMAIN body

\* body[key], or dflt when the key is undefined in the body.
Get(body, key, dflt) == IF Has(body, key) THEN body[key] ELSE dflt

\* Bodies of POST /api/clients.
CreateBodies ==
    {[fullName |-> n, title |-> Title, phone1 |-> Phone, email1 |-> Email] : n \in Names}
    \cup {[fullName |-> NameAB, title |-> Title],
          [title |-> Title, phone1 |-> Phone, email1 |-> Email],
          [fullName |-> NameAB, title |-> Title, phone1 |-> Phone, email1 |-> Email,
           status |-> "Active", history |-> <<"INJECTED">>],
          [fullName |-> NameAB, title |-> Title, phone1 |-> Phone, email1 |-> Email,
           socialLinks |-> [facebook |-> <<"f">>]]}

\* Bodies of PUT /api/clients/:id.  Every body carries the title field of
\* the admin form; the other keys vary.
UpdateBodies ==
    {[title |-> Title],
     [title |-> Title, fullName |-> NameAB1],
     [title |-> Title, slug |-> <<"x">>, history |-> <<>>,
      vcardUrl |-> <<"x">>, qrCodeUrl |-> <<"x">>],
     [title |-> Title, slug |-> <<"a", "-", "b">>],
     [title |-> Title, status |-> "Deleted"],
     [title |-> Title, status |-> "Bogus", phone1 |-> Empty],
     [title |-> Title, socialLinks |-> [instagram |-> <<"i">>]]}

\* Bodies of the status and delete routes: notes missing, short, long enough.
NotesBodies ==
    {[other |-> Empty],
     [notes |-> <<"o", "k">>],
     [notes |-> <<"c", "l", "o", "s", "e", "d">>]}

\* :newStatus path parameters.
StatusParams == {"Active", "Disabled", "Suspended", "Deleted"}

\* Suffixes Math.random().toString(36).substring(2, 8) can produce: "9"
\* (from 0.25, "0.9" in base 36) and a string of six characters.
RandomSuffixes == {<<"9">>, <<"k", "3", "j", "9", "x", "1">>}

\* Authorization headers: none, a token whose signature is wrong, an
\* expired token, a staff token, an admin token.
Tokens == {"none", "invalid", "expired", "staff", "admin"}

(***************************************************************************)
(* The persisted Client document (clientSchema, ClientSchema).  title and  *)
(* company follow the same rules as phone1 and are not tracked.            *)
(***************************************************************************)
AuthStatuses == {"Pending", "Processed", "Active", "Disabled", "Deleted"}
PinoStatuses == {"Pending", "Active", "Suspended", "Deleted"}

\* The socialLinks sub-object (workingHours is declared and handled in the
\* same way and is not tracked).  A single nested sub-document that was
\* never set is undefined: present = FALSE.
LinkKeys == {"facebook", "instagram"}

NoLinks == [present |-> FALSE, facebook |-> Empty, instagram |-> Empty]

\* The sub-object built from the object a body carries: the keys it does
\* not carry are "" (socialLinksSchema defaults) or undefined (Object).
Links(l) ==
    [present |-> TRUE, facebook |-> Get(l, "facebook", Empty),
     instagram |-> Get(l, "instagram", Empty)]

\* A document before any field is set: the schema defaults.
BlankDoc ==
    [fullName |-> Empty, phone1 |-> Empty, email1 |-> Empty, slug |-> Empty,
     status |-> "Pending", history |-> <<>>, vcardUrl |-> Empty,
     qrCodeUrl |-> Empty, socialLinks |-> NoLinks, v |-> 0]

VARIABLES
    variant,    \* which of the two server programs is running
    clients,    \* the Client collection: clients[i] is the document with _id i
    logs,       \* the Log collection (authenticated variant): a bag of
                \* <<action, targetClientId>> entries
    req,        \* req[p]: the request being handled in slot p
    last,       \* the response sent last, with what its handler did
    ops,        \* number of requests received so far
    pdfSemaphore, \* the PDF semaphore: free permits and the queue of tasks
    dash        \* the admin dashboard page open in a browser

vars == <<variant, clients, logs, req, last, ops, pdfSemaphore, dash>>

Ids == 1..Len(clients)

\* Ids a request can name: every document, and one id that resolves to none.
ReqIds == 1..(Len(clients) + 1)

\* Client.findOne({ slug }) finds a document.
SlugTaken(slug) == \E i \in Ids : clients[i].slug = slug

\* A request slot that holds no request.
Idle ==
    [op |-> "idle", pc |-> "done", id |-> 0, doc |-> BlankDoc, orig |-> BlankDoc,
     histSet |-> FALSE, base |-> Empty, counter |-> 0, uploaded |-> FALSE,
     vcf |-> <<>>]

\* A response: the operation and id of the request, the HTTP status, and
\* what the handler did on the way: upload attempted, notification email
\* ("no": none attempted), Log.create rejections caught by logAction;
\* emailError: the response body tells that the email failed.
Answer(op, id, code) ==
    [op |-> op, id |-> id, code |-> code, uploaded |-> FALSE, mailed |-> "no",
     logErr |-> 0, emailError |-> FALSE]

Free(p) == req[p].pc = "done"

\* A new request takes the lowest free slot (the slots are anonymous).
Takes(p) == Free(p) /\ \A q \in Procs : q < p => ~Free(q)

\* A request arrives: the budget of requests is not used up.
Arrives(p) ==
    /\ Takes(p)
    /\ ops < MaxOps
    /\ ops' = ops + 1

\* The handler of slot p goes on with local state r.
Continue(p, r) ==
    /\ req' = [req EXCEPT ![p] = r]
    /\ last' = last

\* The handler of slot p sends response a and ends.
Respond(p, a) ==
    /\ req' = [req EXCEPT ![p] = Idle]
    /\ last' = a

\* new Semaphore(1): one permit, no task queued.
NewSemaphore == [count |-> 1, tasks |-> <<>>]

(***************************************************************************)
(* The admin dashboard page (adminDashboard.js).                           *)
(***************************************************************************)
\* Status changes the administrator makes on the page.
MaxChanges == 2

MAX_RETRIES == 3

Changes == 1..MaxChanges

\* Callers of fetchAllClients: 0 is the page itself (init() and the Retry
\* button), c is the changeClientStatus call c.
Callers == 0..MaxChanges

\* No fetchAllClients call of this caller is running.
FetchOff == [pc |-> "off", attempt |-> 0, data |-> 0, ok |-> FALSE]

\* changeClientStatus call c has not been made.
ChangeOff == [pc |-> "off", rev |-> 0, ok |-> FALSE]

\* The page before DOMContentLoaded: let allClientData = [];
\* let isFetching = false. rev counts the status changes the server has
\* stored; a client list is represented by the rev it was read at.
DashStart ==
    [loaded |-> FALSE, rev |-> 0, isFetching |-> FALSE, allClientData |-> 0,
     table |-> "blank",
     fetch |-> [f \in Callers |-> FetchOff],
     change |-> [c \in Changes |-> ChangeOff]]

Init ==
    /\ variant \in {"auth", "pino"}
    /\ clients = <<>>
    /\ logs = EmptyBag
    /\ req = [p \in Procs |-> Idle]
    /\ last = Answer("none", 0, 0)
    /\ ops = 0
    /\ pdfSemaphore = NewSemaphore
    /\ dash = DashStart

(***************************************************************************)
(* Mongoose validation and the unique index on slug.                       *)
(***************************************************************************)
\* The required-string validator fails on undefined and on "".
\* Authenticated variant: fullName, title, phone1, email1, company, slug.
AuthValid(doc) ==
    /\ Trim(doc.fullName) # Empty
    /\ doc.phone1 # Empty
    /\ doc.email1 # Empty
    /\ doc.slug # Empty
    /\ doc.status \in AuthStatuses

\* Pino variant: fullName and slug are required.
PinoValid(doc) ==
    /\ Trim(doc.fullName) # Empty
    /\ doc.slug # Empty
    /\ doc.status \in PinoStatuses

Valid(doc) == IF variant = "auth" THEN AuthValid(doc) ELSE PinoValid(doc)

\* Mutant of UniqueOk: the slug path has no unique index.
UniqueOkNoIndex(id, slug) == TRUE

\* The unique index on slug rejects a write that would give document id
\* (0: a new document) a slug another document holds.
UniqueOk(id, slug) == \A i \in Ids : i # id => clients[i].slug # slug

\* new Client(body): the schema defaults overlaid with the body's fields.
NewDoc(body) ==
    [BlankDoc EXCEPT
        !.fullName = Get(body, "fullName", Empty),
        !.phone1 = Get(body, "phone1", Empty),
        !.email1 = Get(body, "email1", Empty),
        !.status = Get(body, "status", "Pending"),
        !.history = Get(body, "history", <<>>),
        !.vcardUrl = Get(body, "vcardUrl", Empty),
        !.qrCodeUrl = Get(body, "qrCodeUrl", Empty),
        !.socialLinks = IF Has(body, "socialLinks") THEN Links(body.socialLinks)
                        ELSE IF variant = "auth" THEN Links(<<>>)
                        ELSE NoLinks]

\* doc.save() of a new document: validation, then the insert.  Returns
\* "ok", "invalid" (ValidationError) or "dup" (E11000 on the slug index).
InsertOutcome(doc) ==
    IF ~Valid(doc) THEN "invalid"
    ELSE IF ~UniqueOk(0, doc.slug) THEN "dup"
    ELSE "ok"

(***************************************************************************)
(* doc.save() of a loaded document.  Mongoose writes the modified paths    *)
(* only: a scalar path is $set when its value differs from the loaded one, *)
(* entries pushed on the history array are sent as $push (and increment    *)
(* __v), and an array assigned as a whole is $set under the condition that *)
(* __v still has the loaded value (VersionError otherwise).                *)
(***************************************************************************)
\* The entries the handler pushed on the loaded history array.
Pushed(r) == SubSeq(r.doc.history, Len(r.orig.history) + 1, Len(r.doc.history))

Pick(r, cur, f) == IF r.doc[f] # r.orig[f] THEN r.doc[f] ELSE cur[f]

\* socialLinks after the write: the authenticated variant assigns the
\* whole object, the pino variant sets sub-fields of the sub-document.
PickLinks(r, cur) ==
    IF r.doc.socialLinks = r.orig.socialLinks THEN cur.socialLinks
    ELSE IF variant = "auth" THEN r.doc.socialLinks
    ELSE [present |-> TRUE,
          facebook |-> IF r.doc.socialLinks.facebook # r.orig.socialLinks.facebook
                       THEN r.doc.socialLinks.facebook ELSE cur.socialLinks.facebook,
          instagram |-> IF r.doc.socialLinks.instagram # r.orig.socialLinks.instagram
                        THEN r.doc.socialLinks.instagram ELSE cur.socialLinks.instagram]

\* Mutant of Written: the whole in-memory document replaces the stored one.
WrittenWholeDocument(r) == [r.doc EXCEPT !.v = clients[r.id].v + 1]

\* The persisted document after the write.
Written(r) ==
    LET cur == clients[r.id]
        hist == IF r.histSet THEN r.doc.history ELSE cur.history \o Pushed(r)
    IN  [fullName |-> Pick(r, cur, "fullName"),
         phone1 |-> Pick(r, cur, "phone1"),
         email1 |-> Pick(r, cur, "email1"),
         slug |-> Pick(r, cur, "slug"),
         status |-> Pick(r, cur, "status"),
         history |-> hist,
         vcardUrl |-> Pick(r, cur, "vcardUrl"),
         qrCodeUrl |-> Pick(r, cur, "qrCodeUrl"),
         socialLinks |-> PickLinks(r, cur),
         v |-> IF r.histSet \/ Pushed(r) # <<>> THEN cur.v + 1 ELSE cur.v]

\* "ok", "invalid" (ValidationError), "dup" (E11000 on the slug index) or
\* "version" (VersionError).
UpdateOutcome(r) ==
    IF ~Valid(r.doc) THEN "invalid"
    ELSE IF r.doc.slug # r.orig.slug /\ ~UniqueOk(r.id, r.doc.slug) THEN "dup"
    ELSE IF r.histSet /\ clients[r.id].v # r.orig.v THEN "version"
    ELSE "ok"

\* The collection after save() with outcome out.
Saved(r, out) == IF out = "ok" THEN [clients EXCEPT ![r.id] = Written(r)] ELSE clients

\* Client.findById(id) into the handler's local document.
Load(r, id) == [r EXCEPT !.id = id, !.doc = clients[id], !.orig = clients[id]]

\* client.history.push({ action, ... })
Push(r, action) == [r EXCEPT !.doc.history = Append(r.doc.history, action)]

(***************************************************************************)
(* logAction (authenticated variant): Log.create writes the entry or       *)
(* rejects; the rejection is caught and only printed, so the response a    *)
(* the handler is about to send is not affected.                           *)
(***************************************************************************)
\* Mutant of LogAction: no try/catch, the rejection reaches the handler's
\* catch block, which answers 500.
LogActionThrows(a, ok) ==
    IF ok THEN a ELSE [a EXCEPT !.logErr = a.logErr + 1, !.code = 500]

LogAction(a, ok) == IF ok THEN a ELSE [a EXCEPT !.logErr = a.logErr + 1]

\* Mutant of Logged: the entry is written twice.
LoggedTwice(lg, action, target, ok) ==
    IF ok THEN lg (+) SetToBag({<<action, target>>}) (+) SetToBag({<<action, target>>})
    ELSE lg

\* The Log collection after logAction(action, target).
Logged(lg, action, target, ok) ==
    IF ok THEN lg (+) SetToBag({<<action, target>>}) ELSE lg

(***************************************************************************)
(* authMiddleware and adminAuth (authenticated variant).                   *)
(***************************************************************************)
\* 0 when the request passes both middlewares, otherwise the status sent.
\* Mutant of AuthReject: adminAuth lets every verified token pass.
AuthRejectStaffPasses(tok) ==
    CASE tok \in {"none", "invalid", "expired"} -> 401
      [] OTHER -> 0

AuthReject(tok) ==
    CASE tok \in {"none", "invalid", "expired"} -> 401
      [] tok = "staff" -> 403
      [] OTHER -> 0

(***************************************************************************)
(* Authenticated variant: POST /api/clients.                               *)
(***************************************************************************)
\* One evaluation of the loop condition `await Client.findOne({ slug })`
\* and, when a document is found, of the loop body.
AuthFindStep(r) ==
    IF SlugTaken(r.doc.slug)
    THEN [r EXCEPT !.doc.slug = Suffixed(r.base, r.counter),
                   !.counter = r.counter + 1, !.pc = "find"]
    ELSE [r EXCEPT !.pc = "save"]

\* Mutant of AuthNewClient: the body is spread after the status, so a
\* status carried by the body survives.
AuthNewClientBodyLast(body, slug) == [NewDoc(body) EXCEPT !.slug = slug]

\* new Client({ ...req.body, slug, status: "Pending" })
AuthNewClient(body, slug) ==
    [NewDoc(body) EXCEPT !.slug = slug, !.status = "Pending"]

\* The request arrives: slugify(fullName) throws on an undefined name (500);
\* otherwise the first findOne runs.
AuthCreate(p, body) ==
    /\ variant = "auth"
    /\ Arrives(p)
    /\ IF ~Has(body, "fullName")
       THEN Respond(p, Answer("create", 0, 500))
       ELSE Continue(p, AuthFindStep(
                [Idle EXCEPT !.op = "create",
                             !.base = Slugify(body.fullName),
                             !.counter = 1,
                             !.doc = AuthNewClient(body, Slugify(body.fullName))]))
    /\ UNCHANGED <<variant, dash, pdfSemaphore, clients, logs>>

\* A further findOne of the collision loop.
AuthCreateFind(p) ==
    /\ variant = "auth"
    /\ req[p].op = "create"
    /\ req[p].pc = "find"
    /\ Continue(p, AuthFindStep(req[p]))
    /\ UNCHANGED <<variant, dash, pdfSemaphore, clients, logs, ops>>

\* await client.save(); await logAction(... "CLIENT_CREATED" ...); 201.
\* A ValidationError is answered 400, any other error 500.
AuthCreateSave(p) ==
    /\ variant = "auth"
    /\ req[p].op = "create"
    /\ req[p].pc = "save"
    /\ \E logOk \in BOOLEAN :
        LET r == req[p]
            out == InsertOutcome(r.doc)
            id == Len(clients) + 1
        IN  /\ clients' = IF out = "ok" THEN Append(clients, r.doc) ELSE clients
            /\ logs' = IF out = "ok" THEN Logged(logs, "CLIENT_CREATED", id, logOk)
                       ELSE logs
            /\ Respond(p, CASE out = "ok" -> LogAction(Answer("create", id, 201), logOk)
                            [] out = "invalid" -> Answer("create", 0, 400)
                            [] OTHER -> Answer("create", 0, 500))
    /\ UNCHANGED <<variant, dash, pdfSemaphore, ops>>

(***************************************************************************)
(* Authenticated variant: PUT /api/clients/:id.                            *)
(***************************************************************************)
\* Object.assign(client, adminData): every key of the body is copied onto
\* the document.
AssignAll(doc, body) ==
    [doc EXCEPT
        !.fullName = Get(body, "fullName", doc.fullName),
        !.phone1 = Get(body, "phone1", doc.phone1),
        !.email1 = Get(body, "email1", doc.email1),
        !.slug = Get(body, "slug", doc.slug),
        !.status = Get(body, "status", doc.status),
        !.history = Get(body, "history", doc.history),
        !.vcardUrl = Get(body, "vcardUrl", doc.vcardUrl),
        !.qrCodeUrl = Get(body, "qrCodeUrl", doc.qrCodeUrl),
        !.socialLinks = IF Has(body, "socialLinks") THEN Links(body.socialLinks)
                        ELSE doc.socialLinks]

\* Mutant of AuthApplyUpdate: the status is not forced to Processed.
AuthApplyUpdateKeepsStatus(r, body) ==
    Push([r EXCEPT !.doc = AssignAll(r.doc, body),
                   !.histSet = Has(body, "history"),
                   !.pc = "save"],
         "CLIENT_UPDATED / SAVE_INFO")

\* The synchronous part of the handler after findById.
AuthApplyUpdate(r, body) ==
    Push([r EXCEPT !.doc = [AssignAll(r.doc, body) EXCEPT !.status = "Processed"],
                   !.histSet = Has(body, "history"),
                   !.pc = "save"],
         "CLIENT_UPDATED / SAVE_INFO")

AuthUpdate(p, tok, id, body) ==
    /\ variant = "auth"
    /\ Arrives(p)
    /\ IF AuthReject(tok) # 0 THEN Respond(p, Answer("update", id, AuthReject(tok)))
       ELSE IF id \notin Ids THEN Respond(p, Answer("update", id, 404))
       ELSE Continue(p, AuthApplyUpdate(Load([Idle EXCEPT !.op = "update"], id), body))
    /\ UNCHANGED <<variant, dash, pdfSemaphore, clients, logs>>

\* The common end of the handlers that save a loaded document and log one
\* action: await client.save(); await logAction(...); res.status(200).
\* invalidCode is the status the handler's catch block gives a
\* ValidationError.
SaveLogRespond(p, action, invalidCode, logOk) ==
    LET r == req[p]
        out == UpdateOutcome(r)
    IN  /\ clients' = Saved(r, out)
        /\ logs' = IF out = "ok" THEN Logged(logs, action, r.id, logOk) ELSE logs
        /\ Respond(p, CASE out = "ok" -> LogAction(Answer(r.op, r.id, 200), logOk)
                        [] out = "invalid" -> Answer(r.op, r.id, invalidCode)
                        [] OTHER -> Answer(r.op, r.id, 500))

AuthUpdateSave(p) ==
    /\ variant = "auth"
    /\ req[p].op = "update"
    /\ req[p].pc = "save"
    /\ \E logOk \in BOOLEAN : SaveLogRespond(p, "CLIENT_UPDATED / SAVE_INFO", 400, logOk)
    /\ UNCHANGED <<variant, dash, pdfSemaphore, ops>>

(***************************************************************************)
(* Authenticated variant: PUT /api/clients/:id/status/:newStatus.          *)
(***************************************************************************)
\* notes.length must reach this (if (!notes || notes.length < 5)).
MinNotesLen == 5

AuthValidStatuses == {"Active", "Disabled", "Deleted"}

AuthStatusRejected(newStatus, body) ==
    \/ newStatus \notin AuthValidStatuses
    \/ ~Has(body, "notes")
    \/ body.notes = Empty
    \/ Len(body.notes) < MinNotesLen

AuthStatus(p, tok, id, newStatus, body) ==
    /\ variant = "auth"
    /\ Arrives(p)
    /\ IF AuthReject(tok) # 0 THEN Respond(p, Answer("status", id, AuthReject(tok)))
       ELSE IF AuthStatusRejected(newStatus, body) THEN Respond(p, Answer("status", id, 400))
       ELSE IF id \notin Ids THEN Respond(p, Answer("status", id, 404))
       ELSE Continue(p, Push([Load([Idle EXCEPT !.op = "status"], id) EXCEPT
                                 !.doc.status = newStatus, !.pc = "save"],
                             "STATUS_CHANGED to " \o newStatus))
    /\ UNCHANGED <<variant, dash, pdfSemaphore, clients, logs>>

\* This handler's catch block answers every error, a ValidationError
\* included, with 500.
AuthStatusSave(p) ==
    /\ variant = "auth"
    /\ req[p].op = "status"
    /\ req[p].pc = "save"
    /\ \E logOk \in BOOLEAN : SaveLogRespond(p, "STATUS_CHANGED", 500, logOk)
    /\ UNCHANGED <<variant, dash, pdfSemaphore, ops>>

(***************************************************************************)
(* Authenticated variant: POST /api/clients/:id/vcard.                     *)
(***************************************************************************)
\* `${APP_BASE_URL}/${client.slug}`
AuthVcardUrl(slug) == <<"/">> \o slug

\* QRCode.toDataURL(`${APP_FALLBACK_URL}/vcard/${client._id}`)
AuthQrCode(id) == <<"q", "r", "/">> \o ToDecimal(id)

\* findById, the status check and QRCode.toDataURL (which may reject), then
\* the synchronous assignments up to save().
\* Mutant of AuthVCard: the status of the client is not examined.
AuthVCardAnyStatus(p, tok, id, qrOk) ==
    /\ variant = "auth"
    /\ Arrives(p)
    /\ IF AuthReject(tok) # 0 THEN Respond(p, Answer("vcard", id, AuthReject(tok)))
       ELSE IF id \notin Ids THEN Respond(p, Answer("vcard", id, 404))
       ELSE IF ~qrOk THEN Respond(p, Answer("vcard", id, 500))
       ELSE Continue(p, Push([Load([Idle EXCEPT !.op = "vcard"], id) EXCEPT
                                 !.doc.vcardUrl = AuthVcardUrl(clients[id].slug),
                                 !.doc.qrCodeUrl = AuthQrCode(id),
                                 !.doc.status = "Active",
                                 !.pc = "save"],
                             "VCARD_CREATED"))
    /\ UNCHANGED <<variant, dash, pdfSemaphore, clients, logs>>

AuthVCard(p, tok, id, qrOk) ==
    /\ variant = "auth"
    /\ Arrives(p)
    /\ IF AuthReject(tok) # 0 THEN Respond(p, Answer("vcard", id, AuthReject(tok)))
       ELSE IF id \notin Ids THEN Respond(p, Answer("vcard", id, 404))
       ELSE IF clients[id].status # "Processed" THEN Respond(p, Answer("vcard", id, 400))
       ELSE IF ~qrOk THEN Respond(p, Answer("vcard", id, 500))
       ELSE Continue(p, Push([Load([Idle EXCEPT !.op = "vcard"], id) EXCEPT
                                 !.doc.vcardUrl = AuthVcardUrl(clients[id].slug),
                                 !.doc.qrCodeUrl = AuthQrCode(id),
                                 !.doc.status = "Active",
                                 !.pc = "save"],
                             "VCARD_CREATED"))
    /\ UNCHANGED <<variant, dash, pdfSemaphore, clients, logs>>

\* sendVCardEmail: transporter.sendMail resolves or rejects; either way one
\* logAction (EMAIL_SENT / EMAIL_FAILED) follows and nothing is thrown.
SendVCardEmail(a, mailOk, logOk) ==
    LogAction([a EXCEPT !.mailed = IF mailOk THEN "sent" ELSE "failed",
                        !.emailError = ~mailOk], logOk)

\* await client.save(); await logAction(... "VCARD_CREATED" ...);
\* await sendVCardEmail(client); res.status(200) in both email outcomes.
AuthVCardSave(p) ==
    /\ variant = "auth"
    /\ req[p].op = "vcard"
    /\ req[p].pc = "save"
    /\ \E logOk \in BOOLEAN, mailOk \in BOOLEAN, mailLogOk \in BOOLEAN :
        LET r == req[p]
            out == UpdateOutcome(r)
            mailAction == IF mailOk THEN "EMAIL_SENT" ELSE "EMAIL_FAILED"
        IN  /\ clients' = Saved(r, out)
            /\ logs' = IF out = "ok"
                       THEN Logged(Logged(logs, "VCARD_CREATED", r.id, logOk),
                                   mailAction, r.id, mailLogOk)
                       ELSE logs
            /\ Respond(p, IF out = "ok"
                          THEN SendVCardEmail(LogAction(Answer("vcard", r.id, 200), logOk),
                                              mailOk, mailLogOk)
                          ELSE Answer("vcard", r.id, 500))
    /\ UNCHANGED <<variant, dash, pdfSemaphore, ops>>

(***************************************************************************)
(* Pino variant: generateUniqueSlug.                                       *)
(***************************************************************************)
\* Where a handler goes on once generateUniqueSlug has returned.
AfterSlug(op) == IF op = "vcard" THEN "upload" ELSE "save"

\* One evaluation of the loop condition `await Client.findOne({ slug })`
\* and, when a document is found, of the loop body: the next numeric
\* suffix, or past SlugMaxCounter a random suffix and break.  The candidate
\* slug is kept in r.doc.slug, where the caller assigns the result.
PinoSlugStep(r, rnd) ==
    IF SlugTaken(r.doc.slug)
    THEN IF r.counter + 1 > SlugMaxCounter
         THEN [r EXCEPT !.doc.slug = r.base \o <<"-">> \o rnd,
                        !.counter = r.counter + 1, !.pc = AfterSlug(r.op)]
         ELSE [r EXCEPT !.doc.slug = Suffixed(r.base, r.counter),
                        !.counter = r.counter + 1, !.pc = "find"]
    ELSE [r EXCEPT !.pc = AfterSlug(r.op)]

\* generateUniqueSlug(name) is called: baseSlug, slug = baseSlug,
\* counter = 1, and the first findOne.
PinoSlugStart(r, name, rnd) ==
    PinoSlugStep([r EXCEPT !.base = PinoBaseSlug(name),
                           !.doc.slug = PinoBaseSlug(name),
                           !.counter = 1], rnd)

\* A further findOne of the collision loop, for whichever handler called.
PinoSlugFind(p, rnd) ==
    /\ variant = "pino"
    /\ req[p].pc = "find"
    /\ Continue(p, PinoSlugStep(req[p], rnd))
    /\ UNCHANGED <<variant, dash, pdfSemaphore, clients, logs, ops>>

(***************************************************************************)
(* Pino variant: POST /api/clients.                                        *)
(***************************************************************************)
\* new Client(incoming); status = "Pending"; and, once the slug is there,
\* history.push(CLIENT_CREATED).
PinoNewClient(body) ==
    [NewDoc(body) EXCEPT !.status = "Pending",
                         !.history = Append(NewDoc(body).history, "CLIENT_CREATED")]

\* generateUniqueSlug(undefined) throws a TypeError: 500.
PinoCreate(p, body, rnd) ==
    /\ variant = "pino"
    /\ Arrives(p)
    /\ IF ~Has(body, "fullName")
       THEN Respond(p, Answer("create", 0, 500))
       ELSE Continue(p, PinoSlugStart([Idle EXCEPT !.op = "create",
                                                   !.doc = PinoNewClient(body)],
                                      body.fullName, rnd))
    /\ UNCHANGED <<variant, dash, pdfSemaphore, clients, logs>>

\* await clientDoc.save(); the admin notification (sendEmail catches its
\* own failure and changes nothing here); 201.
PinoCreateSave(p) ==
    /\ variant = "pino"
    /\ req[p].op = "create"
    /\ req[p].pc = "save"
    /\ LET r == req[p]
           out == InsertOutcome(r.doc)
       IN  /\ clients' = IF out = "ok" THEN Append(clients, r.doc) ELSE clients
           /\ Respond(p, CASE out = "ok" -> Answer("create", Len(clients) + 1, 201)
                           [] out = "invalid" -> Answer("create", 0, 400)
                           [] OTHER -> Answer("create", 0, 500))
    /\ UNCHANGED <<variant, dash, pdfSemaphore, logs, ops>>

(***************************************************************************)
(* Pino variant: PUT /api/clients/:id.                                     *)
(***************************************************************************)
\* The loop over allowedTopLevelFields: only these keys are copied.
AssignAllowed(doc, body) ==
    [doc EXCEPT
        !.fullName = Get(body, "fullName", doc.fullName),
        !.phone1 = Get(body, "phone1", doc.phone1),
        !.email1 = Get(body, "email1", doc.email1),
        !.status = Get(body, "status", doc.status)]

\* if (incoming.fullName && incoming.fullName !== client.fullName)
Renamed(doc, body) ==
    /\ Has(body, "fullName")
    /\ body.fullName # Empty
    /\ body.fullName # doc.fullName

\* if (incoming.socialLinks) { try { Object.assign(client.socialLinks, links) }
\* catch (e) { logger.error(...) } }: the supplied keys are set on the
\* sub-document; when client.socialLinks is undefined Object.assign throws
\* a TypeError, which is caught and only logged.
MergeLinks(doc, body) ==
    IF Has(body, "socialLinks") /\ doc.socialLinks.present
    THEN [doc EXCEPT !.socialLinks =
             [present |-> TRUE,
              facebook |-> Get(body.socialLinks, "facebook", doc.socialLinks.facebook),
              instagram |-> Get(body.socialLinks, "instagram", doc.socialLinks.instagram)]]
    ELSE doc

\* The handler after findById: the slug is regenerated when the name
\* changes, the allowed fields are copied, the nested objects are merged
\* and CLIENT_UPDATED is pushed.
PinoApplyUpdate(r, body, rnd) ==
    LET r1 == Push([r EXCEPT !.doc = MergeLinks(AssignAllowed(r.doc, body), body),
                             !.pc = "save"],
                   "CLIENT_UPDATED")
    IN  IF Renamed(r.doc, body) THEN PinoSlugStart(r1, body.fullName, rnd) ELSE r1

PinoUpdate(p, id, body, rnd) ==
    /\ variant = "pino"
    /\ Arrives(p)
    /\ IF id \notin Ids THEN Respond(p, Answer("update", id, 404))
       ELSE Continue(p, PinoApplyUpdate(Load([Idle EXCEPT !.op = "update"], id), body, rnd))
    /\ UNCHANGED <<variant, dash, pdfSemaphore, clients, logs>>

\* The common end of the pino handlers that save a loaded document:
\* await client.save(); respSuccess.  logAction only writes to the process
\* log.
SaveRespond(p, invalidCode) ==
    LET r == req[p]
        out == UpdateOutcome(r)
    IN  /\ clients' = Saved(r, out)
        /\ Respond(p, CASE out = "ok" -> Answer(r.op, r.id, 200)
                        [] out = "invalid" -> Answer(r.op, r.id, invalidCode)
                        [] OTHER -> Answer(r.op, r.id, 500))

PinoUpdateSave(p) ==
    /\ variant = "pino"
    /\ req[p].op = "update"
    /\ req[p].pc = "save"
    /\ SaveRespond(p, 400)
    /\ UNCHANGED <<variant, dash, pdfSemaphore, logs, ops>>

(***************************************************************************)
(* Pino variant: PUT /api/clients/:id/status/:newStatus and                *)
(* DELETE /api/clients/:id.                                                *)
(***************************************************************************)
PinoValidStatuses == {"Pending", "Active", "Suspended", "Deleted"}

PinoStatus(p, id, newStatus, body) ==
    /\ variant = "pino"
    /\ Arrives(p)
    /\ IF newStatus \notin PinoValidStatuses THEN Respond(p, Answer("status", id, 400))
       ELSE IF id \notin Ids THEN Respond(p, Answer("status", id, 404))
       ELSE Continue(p, Push([Load([Idle EXCEPT !.op = "status"], id) EXCEPT
                                 !.doc.status = newStatus, !.pc = "save"],
                             "STATUS_CHANGED"))
    /\ UNCHANGED <<variant, dash, pdfSemaphore, clients, logs>>

PinoStatusSave(p) ==
    /\ variant = "pino"
    /\ req[p].op = "status"
    /\ req[p].pc = "save"
    /\ SaveRespond(p, 500)
    /\ UNCHANGED <<variant, dash, pdfSemaphore, logs, ops>>

\* Mutant of PinoDelete: the delete route asks for notes of at least five
\* characters before it looks the client up.
PinoDeleteNotesRequired(p, id, body) ==
    /\ variant = "pino"
    /\ Arrives(p)
    /\ IF ~Has(body, "notes") \/ Len(Get(body, "notes", Empty)) < 5
       THEN Respond(p, Answer("delete", id, 400))
       ELSE IF id \notin Ids THEN Respond(p, Answer("delete", id, 404))
       ELSE Continue(p, Push([Load([Idle EXCEPT !.op = "delete"], id) EXCEPT
                                 !.doc.status = "Deleted", !.pc = "save"],
                             "CLIENT_DELETED"))
    /\ UNCHANGED <<variant, dash, pdfSemaphore, clients, logs>>

PinoDelete(p, id, body) ==
    /\ variant = "pino"
    /\ Arrives(p)
    /\ IF id \notin Ids THEN Respond(p, Answer("delete", id, 404))
       ELSE Continue(p, Push([Load([Idle EXCEPT !.op = "delete"], id) EXCEPT
                                 !.doc.status = "Deleted", !.pc = "save"],
                             "CLIENT_DELETED"))
    /\ UNCHANGED <<variant, dash, pdfSemaphore, clients, logs>>

PinoDeleteSave(p) ==
    /\ variant = "pino"
    /\ req[p].op = "delete"
    /\ req[p].pc = "save"
    /\ SaveRespond(p, 500)
    /\ UNCHANGED <<variant, dash, pdfSemaphore, logs, ops>>

(***************************************************************************)
(* Pino variant: POST /api/clients/:id/vcard.                              *)
(***************************************************************************)
\* Mutant of LacksContact: the contact test asks for both channels to be
\* missing together with the name.
LacksContactAnd(doc) == doc.fullName = Empty /\ (doc.phone1 = Empty /\ doc.email1 = Empty)

\* if (!client.fullName || (!client.phone1 && !client.email1))
LacksContact(doc) == doc.fullName = Empty \/ (doc.phone1 = Empty /\ doc.email1 = Empty)

\* result.secure_url of the upload with public_id slug
PinoVcardUrl(slug) == <<"v", "/">> \o slug

\* qrcode.toDataURL(`${VCARD_BASE_URL}/${client.slug}`)
PinoQrCode(slug) == <<"q", "r", "/">> \o slug

\* findById and the two checks; a document without a slug gets one.
PinoVCard(p, id, rnd) ==
    /\ variant = "pino"
    /\ Arrives(p)
    /\ IF id \notin Ids THEN Respond(p, Answer("vcard", id, 404))
       ELSE IF LacksContact(clients[id]) THEN Respond(p, Answer("vcard", id, 400))
       ELSE LET r == Load([Idle EXCEPT !.op = "vcard", !.pc = "upload"], id)
            IN  Continue(p, IF Trim(r.doc.slug) = Empty
                            THEN PinoSlugStart(r, r.doc.fullName, rnd)
                            ELSE r)
    /\ UNCHANGED <<variant, dash, pdfSemaphore, clients, logs>>

\* Instants the clock may show when a payload is formatted (sample values).
Instants == {1, 2}

\* names.shift(): the characters before the first space.
RECURSIVE FirstToken(_)
FirstToken(s) ==
    IF s = <<>> \/ Head(s) = " " THEN <<>>
    ELSE <<Head(s)>> \o FirstToken(Tail(s))

\* names.join(" ") after the shift: the characters after the first space.
RECURSIVE RestTokens(_)
RestTokens(s) ==
    IF s = <<>> THEN <<>>
    ELSE IF Head(s) = " " THEN Tail(s)
    ELSE RestTokens(Tail(s))

\* generateVcardContent(client): the lines of vCard.getFormattedString()
\* for the fields the handler sets. The formatter writes the display name
\* built from first and last name, the structured name, one line per
\* populated contact and a REV line holding the instant of the call (new
\* Date() inside the library); vCard.name and vCard.socialmedia are not
\* properties the formatter reads. The client is read and never assigned.
generateVcardContent(client, now) ==
    LET firstName == FirstToken(client.fullName)
        lastName  == RestTokens(client.fullName)
        formatted == IF lastName = Empty THEN firstName
                     ELSE firstName \o <<" ">> \o lastName
    IN  <<<<"BEGIN", "VCARD">>, <<"VERSION", "3.0">>,
          <<"FN", formatted>>, <<"N", lastName, firstName>>>>
        \o (IF client.email1 # Empty THEN <<<<"EMAIL", client.email1>>>> ELSE <<>>)
        \o (IF client.phone1 # Empty THEN <<<<"TEL", "CELL", client.phone1>>>> ELSE <<>>)
        \o <<<<"REV", now>>, <<"END", "VCARD">>>>

\* Mutant of PinoVCardUpload: the status is saved before the upload is
\* awaited.
PinoVCardUploadSavesFirst(p, upOk, qrOk, now) ==
    /\ variant = "pino"
    /\ req[p].op = "vcard"
    /\ req[p].pc = "upload"
    /\ clients' = [clients EXCEPT ![req[p].id].status = "Active"]
    /\ LET r == req[p]
       IN  IF upOk /\ qrOk
           THEN Continue(p, Push([r EXCEPT !.uploaded = TRUE,
                                           !.vcf = generateVcardContent(r.doc, now),
                                           !.doc.vcardUrl = PinoVcardUrl(r.doc.slug),
                                           !.doc.qrCodeUrl = PinoQrCode(r.doc.slug),
                                           !.doc.status = "Active",
                                           !.pc = "save"],
                                 "VCARD_CREATED"))
           ELSE Respond(p, [Answer("vcard", r.id, 500) EXCEPT !.uploaded = TRUE])
    /\ UNCHANGED <<variant, dash, pdfSemaphore, logs, ops>>

\* await uploadVcfToCloudinary(...); await qrcode.toDataURL(...): either may
\* reject, which the catch block answers with 500; otherwise the document
\* is updated in memory.
PinoVCardUpload(p, upOk, qrOk, now) ==
    /\ variant = "pino"
    /\ req[p].op = "vcard"
    /\ req[p].pc = "upload"
    /\ LET r == req[p]
       IN  IF upOk /\ qrOk
           THEN Continue(p, Push([r EXCEPT !.uploaded = TRUE,
                                           !.vcf = generateVcardContent(r.doc, now),
                                           !.doc.vcardUrl = PinoVcardUrl(r.doc.slug),
                                           !.doc.qrCodeUrl = PinoQrCode(r.doc.slug),
                                           !.doc.status = "Active",
                                           !.pc = "save"],
                                 "VCARD_CREATED"))
           ELSE Respond(p, [Answer("vcard", r.id, 500) EXCEPT !.uploaded = TRUE])
    /\ UNCHANGED <<variant, dash, pdfSemaphore, clients, logs, ops>>

\* sendEmail: transporter.sendMail resolves or rejects; the rejection is
\* caught and nothing is returned either way.
SendEmail(a, mailOk) == [a EXCEPT !.mailed = IF mailOk THEN "sent" ELSE "failed"]

\* await client.save(); await sendEmail(...); respSuccess.
PinoVCardSave(p, mailOk) ==
    /\ variant = "pino"
    /\ req[p].op = "vcard"
    /\ req[p].pc = "save"
    /\ LET r == req[p]
           out == UpdateOutcome(r)
       IN  /\ clients' = Saved(r, out)
           /\ Respond(p, IF out = "ok"
                         THEN SendEmail([Answer("vcard", r.id, 200) EXCEPT
                                            !.uploaded = r.uploaded], mailOk)
                         ELSE [Answer("vcard", r.id, 500) EXCEPT !.uploaded = r.uploaded])
    /\ UNCHANGED <<variant, dash, pdfSemaphore, logs, ops>>

(***************************************************************************)
(* Authenticated variant: GET /api/clients/:id/pdf behind pdfSemaphore.    *)
(* acquire() queues a task and resolves when sched() runs it; the function *)
(* it resolves to gives the permit back once.                              *)
(***************************************************************************)
\* Mutant of CanSched: the permit count is not looked at.
CanSchedAnyCount(sem) == sem.tasks # <<>>

\* sched(): if (this.count > 0 && this.tasks.length > 0)
CanSched(sem) == sem.count > 0 /\ sem.tasks # <<>>

\* release(): this.count++ (sched() follows as PdfSched).
Release(sem) == [sem EXCEPT !.count = sem.count + 1]

\* authMiddleware, adminAuth, then `await pdfSemaphore.acquire()`: the task
\* is queued.
PdfAcquire(p, tok, id) ==
    /\ variant = "auth"
    /\ Arrives(p)
    /\ IF AuthReject(tok) # 0
       THEN /\ Respond(p, Answer("pdf", id, AuthReject(tok)))
            /\ UNCHANGED pdfSemaphore
       ELSE /\ Continue(p, [Idle EXCEPT !.op = "pdf", !.pc = "acquire", !.id = id])
            /\ pdfSemaphore' = [pdfSemaphore EXCEPT !.tasks = Append(pdfSemaphore.tasks, p)]
    /\ UNCHANGED <<variant, dash, clients, logs>>

\* sched(): this.count--; the first queued task runs and its acquire()
\* resolves.
PdfSched ==
    /\ CanSched(pdfSemaphore)
    /\ LET p == Head(pdfSemaphore.tasks)
       IN  /\ pdfSemaphore' = [count |-> pdfSemaphore.count - 1,
                               tasks |-> Tail(pdfSemaphore.tasks)]
           /\ Continue(p, [req[p] EXCEPT !.pc = "find"])
    /\ UNCHANGED <<variant, dash, clients, logs, ops>>

\* The bounded wait the gate is meant to have passes while the permit is
\* held and the task is still queued: acquire() has no timer, the request
\* goes on waiting.
PdfWaitPasses(p) ==
    /\ req[p].op = "pdf"
    /\ req[p].pc = "acquire"
    /\ pdfSemaphore.count = 0
    /\ Continue(p, [req[p] EXCEPT !.pc = "overdue"])
    /\ UNCHANGED <<variant, dash, clients, logs, ops, pdfSemaphore>>

\* Mutant of PdfFind: the 404 return is taken before a try/finally, the
\* permit is not given back on it.
PdfFindLeaksOn404(p, findOk, renderOk) ==
    /\ req[p].op = "pdf"
    /\ req[p].pc = "find"
    /\ LET r == req[p]
       IN  IF ~findOk \/ (r.id \in Ids /\ ~renderOk)
           THEN /\ Respond(p, Answer("pdf", r.id, 500))
                /\ pdfSemaphore' = Release(pdfSemaphore)
           ELSE IF r.id \notin Ids
           THEN /\ Respond(p, Answer("pdf", r.id, 404))
                /\ UNCHANGED pdfSemaphore
           ELSE /\ Continue(p, [r EXCEPT !.pc = "log"])
                /\ UNCHANGED pdfSemaphore
    /\ UNCHANGED <<variant, dash, clients, logs, ops>>

\* await Client.findById(...) resolves or rejects; 404 for no document;
\* the PDF is piped to the response, which may throw; catch answers 500;
\* finally release() on each of these returns.  After a render the handler
\* awaits logAction before it reaches finally.
PdfFind(p, findOk, renderOk) ==
    /\ req[p].op = "pdf"
    /\ req[p].pc = "find"
    /\ LET r == req[p]
       IN  IF ~findOk \/ (r.id \in Ids /\ ~renderOk)
           THEN /\ Respond(p, Answer("pdf", r.id, 500))
                /\ pdfSemaphore' = Release(pdfSemaphore)
           ELSE IF r.id \notin Ids
           THEN /\ Respond(p, Answer("pdf", r.id, 404))
                /\ pdfSemaphore' = Release(pdfSemaphore)
           ELSE /\ Continue(p, [r EXCEPT !.pc = "log"])
                /\ UNCHANGED pdfSemaphore
    /\ UNCHANGED <<variant, dash, clients, logs, ops>>

\* await logAction(... "PDF_VIEWED", client._id) returns (it never throws);
\* finally release().
PdfLogged(p, logOk) ==
    /\ req[p].op = "pdf"
    /\ req[p].pc = "log"
    /\ logs' = Logged(logs, "PDF_VIEWED", req[p].id, logOk)
    /\ Respond(p, LogAction(Answer("pdf", req[p].id, 200), logOk))
    /\ pdfSemaphore' = Release(pdfSemaphore)
    /\ UNCHANGED <<variant, dash, clients, ops>>

(***************************************************************************)
(* Public profile lookup: GET /vcard/:id (authenticated variant) and       *)
(* GET /:slug (pino variant).  Neither asks for a token.  A response with  *)
(* code 200 carries the profile data of client `id`.                       *)
(***************************************************************************)
\* Mutant of Visible: only Deleted records are kept from the public.
VisibleUnlessDeleted(doc) == doc.status # "Deleted"

\* client.status !== "Active" / findOne({ slug, status: "Active" })
Visible(doc) == doc.status = "Active"

\* The document Client.findOne({ slug }) would find (0: none).
SlugOwner(slug) == IF SlugTaken(slug) THEN CHOOSE i \in Ids : clients[i].slug = slug ELSE 0

\* Slugs a visitor can ask for: those of the documents and one of none.
SlugParams == {clients[i].slug : i \in Ids} \cup {<<"z">>}

\* const client = await Client.findById(req.params.id);
\* if (!client || client.status !== "Active") return 404; else 200 + page;
\* a rejected query is answered 500.
AuthPublicVCard(p, id, findOk) ==
    /\ variant = "auth"
    /\ Arrives(p)
    /\ Respond(p, Answer("lookup", id,
                         IF ~findOk THEN 500
                         ELSE IF id \notin Ids THEN 404
                         ELSE IF ~Visible(clients[id]) THEN 404
                         ELSE 200))
    /\ UNCHANGED <<variant, dash, pdfSemaphore, clients, logs>>

\* const client = await Client.findOne({ slug, status: "Active" });
\* if (!client) return res.redirect(APP_FALLBACK_URL || "/404.html");
\* else respSuccess(res, vcardData); a rejected query is answered 500.
PinoPublicSlug(p, slug, findOk) ==
    /\ variant = "pino"
    /\ Arrives(p)
    /\ LET id == SlugOwner(slug)
       IN  Respond(p, Answer("lookup", id,
                             IF ~findOk THEN 500
                             ELSE IF id = 0 THEN 302
                             ELSE IF ~Visible(clients[id]) THEN 302
                             ELSE 200))
    /\ UNCHANGED <<variant, dash, pdfSemaphore, clients, logs>>

(***************************************************************************)
(* pino variant: GET requests for a path of one segment. Express runs the  *)
(* first registered route whose pattern matches the path.                  *)
(***************************************************************************)
HealthPath == <<"h", "e", "a", "l", "t", "h">>

\* One-segment paths a GET request can name.
GetPaths == SlugParams \cup {HealthPath}

\* app.get("/:slug", ...) is registered before app.get('/health', ...).
PinoGetRoutes == <<"/:slug", "/health">>

\* The pattern of the route matches the one-segment path: a parameter
\* matches every segment, a literal only itself.
RouteMatches(route, path) ==
    \/ route = "/:slug"
    \/ route = "/health" /\ path = HealthPath

\* The first registered route that matches.
FirstMatch(routes, path) ==
    routes[CHOOSE k \in DOMAIN routes :
              /\ RouteMatches(routes[k], path)
              /\ \A j \in 1..(k - 1) : ~RouteMatches(routes[j], path)]

\* app.get('/health'): 200 when mongoose.connection.readyState is 1,
\* otherwise 503.
PinoHealth(p, dbUp) ==
    /\ variant = "pino"
    /\ Arrives(p)
    /\ Respond(p, Answer("health", 0, IF dbUp THEN 200 ELSE 503))
    /\ UNCHANGED <<variant, dash, pdfSemaphore, clients, logs>>

PinoGet(p, path, findOk, dbUp) ==
    IF FirstMatch(PinoGetRoutes, path) = "/:slug"
    THEN PinoPublicSlug(p, path, findOk)
    ELSE PinoHealth(p, dbUp)

(***************************************************************************)
(* Admin dashboard: fetchAllClients and changeClientStatus.                *)
(***************************************************************************)
\* fetchAllClients() up to its first await, called by f on page state d:
\* if (isFetching || !API_ROOT) return; isFetching = true; the loading row;
\* fetch(`${API_ROOT}/admin/clients`) of attempt 1.
fetchAllClients(d, f) ==
    IF d.isFetching THEN d
    ELSE [d EXCEPT !.isFetching = TRUE,
                   !.table = "loading",
                   !.fetch[f] = [pc |-> "request", attempt |-> 1, data |-> 0,
                                 ok |-> FALSE]]

\* document.addEventListener('DOMContentLoaded', init): init() awaits
\* fetchAllClients().
DashLoad ==
    /\ ~dash.loaded
    /\ dash' = fetchAllClients([dash EXCEPT !.loaded = TRUE], 0)
    /\ UNCHANGED <<variant, clients, logs, req, last, ops, pdfSemaphore>>

\* The Retry button showFinalError renders: onclick="fetchAllClients()".
DashRetry ==
    /\ dash.table = "error"
    /\ dash.fetch[0].pc = "off"
    /\ dash' = fetchAllClients(dash, 0)
    /\ UNCHANGED <<variant, clients, logs, req, last, ops, pdfSemaphore>>

\* The server answers GET /admin/clients: with the list as stored now, or
\* with an error (or the request fails).
DashFetchServed(f, ok) ==
    /\ dash.fetch[f].pc = "request"
    /\ dash' = [dash EXCEPT !.fetch[f].pc = "response",
                            !.fetch[f].data = dash.rev,
                            !.fetch[f].ok = ok]
    /\ UNCHANGED <<variant, clients, logs, req, last, ops, pdfSemaphore>>

\* The awaited fetch settles. Success: allClientData = await
\* response.json(); renderTable(allClientData); isFetching = false; return.
\* Failure: on the last attempt showFinalError, isFetching = false, return;
\* otherwise the back-off timer is awaited.
DashFetchResponse(f) ==
    /\ dash.fetch[f].pc = "response"
    /\ dash' = IF dash.fetch[f].ok
               THEN [dash EXCEPT !.allClientData = dash.fetch[f].data,
                                 !.table = "rows",
                                 !.isFetching = FALSE,
                                 !.fetch[f] = FetchOff]
               ELSE IF dash.fetch[f].attempt = MAX_RETRIES
               THEN [dash EXCEPT !.table = "error",
                                 !.isFetching = FALSE,
                                 !.fetch[f] = FetchOff]
               ELSE [dash EXCEPT !.fetch[f].pc = "backoff"]
    /\ UNCHANGED <<variant, clients, logs, req, last, ops, pdfSemaphore>>

\* The back-off timer fires: attempt++, the loading row, the next fetch.
DashFetchBackoff(f) ==
    /\ dash.fetch[f].pc = "backoff"
    /\ dash' = [dash EXCEPT !.table = "loading",
                            !.fetch[f].pc = "request",
                            !.fetch[f].attempt = dash.fetch[f].attempt + 1]
    /\ UNCHANGED <<variant, clients, logs, req, last, ops, pdfSemaphore>>

\* The administrator confirms a status change in the notes modal of a
\* rendered row: changeClientStatus sends its PUT.
DashChange(c) ==
    /\ dash.table = "rows"
    /\ dash.change[c].pc = "off"
    /\ dash' = [dash EXCEPT !.change[c].pc = "put"]
    /\ UNCHANGED <<variant, clients, logs, req, last, ops, pdfSemaphore>>

\* The server answers PUT /clients/:id/status/:newStatus: the change is
\* stored (200), or it is not (an error status).
DashChangeServed(c, ok) ==
    /\ dash.change[c].pc = "put"
    /\ dash' = IF ok
               THEN [dash EXCEPT !.rev = dash.rev + 1,
                                 !.change[c] = [pc |-> "served", rev |-> dash.rev + 1,
                                                ok |-> TRUE]]
               ELSE [dash EXCEPT !.change[c].pc = "served"]
    /\ UNCHANGED <<variant, clients, logs, req, last, ops, pdfSemaphore>>

\* The awaited PUT settles: if (!response.ok) throw (caught: error toast);
\* otherwise the toast, the row highlight and await fetchAllClients().
DashChangeResponse(c) ==
    /\ dash.change[c].pc = "served"
    /\ dash' = IF dash.change[c].ok
               THEN fetchAllClients([dash EXCEPT !.change[c].pc = "ok"], c)
               ELSE [dash EXCEPT !.change[c].pc = "failed"]
    /\ UNCHANGED <<variant, clients, logs, req, last, ops, pdfSemaphore>>

DashNext ==
    \/ DashLoad
    \/ DashRetry
    \/ \E f \in Callers, ok \in BOOLEAN : DashFetchServed(f, ok)
    \/ \E f \in Callers : DashFetchResponse(f)
    \/ \E f \in Callers : DashFetchBackoff(f)
    \/ \E c \in Changes : DashChange(c)
    \/ \E c \in Changes, ok \in BOOLEAN : DashChangeServed(c, ok)
    \/ \E c \in Changes : DashChangeResponse(c)

Next ==
    \/ \E p \in Procs, body \in CreateBodies : AuthCreate(p, body)
    \/ \E p \in Procs : AuthCreateFind(p)
    \/ \E p \in Procs : AuthCreateSave(p)
    \/ \E p \in Procs, tok \in Tokens, id \in ReqIds, body \in UpdateBodies :
          AuthUpdate(p, tok, id, body)
    \/ \E p \in Procs : AuthUpdateSave(p)
    \/ \E p \in Procs, tok \in Tokens, id \in ReqIds,
          newStatus \in StatusParams, body \in NotesBodies :
          AuthStatus(p, tok, id, newStatus, body)
    \/ \E p \in Procs : AuthStatusSave(p)
    \/ \E p \in Procs, tok \in Tokens, id \in ReqIds, qrOk \in BOOLEAN :
          AuthVCard(p, tok, id, qrOk)
    \/ \E p \in Procs : AuthVCardSave(p)
    \/ \E p \in Procs, body \in CreateBodies, rnd \in RandomSuffixes :
          PinoCreate(p, body, rnd)
    \/ \E p \in Procs, rnd \in RandomSuffixes : PinoSlugFind(p, rnd)
    \/ \E p \in Procs : PinoCreateSave(p)
    \/ \E p \in Procs, id \in ReqIds, body \in UpdateBodies, rnd \in RandomSuffixes :
          PinoUpdate(p, id, body, rnd)
    \/ \E p \in Procs : PinoUpdateSave(p)
    \/ \E p \in Procs, id \in ReqIds, newStatus \in StatusParams, body \in NotesBodies :
          PinoStatus(p, id, newStatus, body)
    \/ \E p \in Procs : PinoStatusSave(p)
    \/ \E p \in Procs, id \in ReqIds, body \in NotesBodies : PinoDelete(p, id, body)
    \/ \E p \in Procs : PinoDeleteSave(p)
    \/ \E p \in Procs, id \in ReqIds, rnd \in RandomSuffixes : PinoVCard(p, id, rnd)
    \/ \E p \in Procs, upOk \in BOOLEAN, qrOk \in BOOLEAN, now \in Instants :
          PinoVCardUpload(p, upOk, qrOk, now)
    \/ \E p \in Procs, mailOk \in BOOLEAN : PinoVCardSave(p, mailOk)
    \/ \E p \in Procs, tok \in Tokens, id \in ReqIds : PdfAcquire(p, tok, id)
    \/ PdfSched
    \/ \E p \in Procs : PdfWaitPasses(p)
    \/ \E p \in Procs, findOk \in BOOLEAN, renderOk \in BOOLEAN : PdfFind(p, findOk, renderOk)
    \/ \E p \in Procs, logOk \in BOOLEAN : PdfLogged(p, logOk)
    \/ \E p \in Procs, id \in ReqIds, findOk \in BOOLEAN : AuthPublicVCard(p, id, findOk)
    \/ \E p \in Procs, path \in GetPaths, findOk \in BOOLEAN, dbUp \in BOOLEAN :
          PinoGet(p, path, findOk, dbUp)

Spec == Init /\ [][Next]_vars

\* The event loop runs every continuation that is ready, and every database
\* call of the PDF handler resolves or rejects: the steps of a PDF request
\* that are enabled are eventually taken.
PdfFairness ==
    /\ WF_vars(PdfSched)
    /\ \A p \in Procs :
          /\ WF_vars(\E findOk \in BOOLEAN, renderOk \in BOOLEAN : PdfFind(p, findOk, renderOk))
          /\ WF_vars(\E logOk \in BOOLEAN : PdfLogged(p, logOk))

LiveSpec == Spec /\ PdfFairness

(***************************************************************************)
(* The client routes of the authenticated variant on a database that       *)
(* already holds one client an administrator has processed.                *)
(***************************************************************************)
\* The document after POST /api/clients and one PUT /api/clients/:id.
ProcessedClient ==
    [fullName |-> NameAB, phone1 |-> Phone, email1 |-> Email,
     slug |-> Slugify(NameAB), status |-> "Processed",
     history |-> <<"CLIENT_UPDATED / SAVE_INFO">>, vcardUrl |-> Empty,
     qrCodeUrl |-> Empty, socialLinks |-> Links(<<>>), v |-> 1]

\* The Log entries of these two requests.
ProcessedLogs ==
    SetToBag({<<"CLIENT_CREATED", 1>>, <<"CLIENT_UPDATED / SAVE_INFO", 1>>})

InitProcessed ==
    /\ variant = "auth"
    /\ clients = <<ProcessedClient>>
    /\ logs = ProcessedLogs
    /\ req = [p \in Procs |-> Idle]
    /\ last = Answer("none", 0, 0)
    /\ ops = 0
    /\ pdfSemaphore = NewSemaphore
    /\ dash = DashStart

\* Bodies of PUT /api/clients/:id, one naming the initial status included.
AuthUpdateBodies == UpdateBodies \cup {[status |-> "Pending"]}

\* :newStatus path parameters, the initial status included.
AuthStatusParams == StatusParams \cup {"Pending"}

AuthNext ==
    \/ \E p \in Procs, body \in CreateBodies : AuthCreate(p, body)
    \/ \E p \in Procs : AuthCreateFind(p)
    \/ \E p \in Procs : AuthCreateSave(p)
    \/ \E p \in Procs, tok \in Tokens, id \in ReqIds, body \in AuthUpdateBodies :
          AuthUpdate(p, tok, id, body)
    \/ \E p \in Procs : AuthUpdateSave(p)
    \/ \E p \in Procs, tok \in Tokens, id \in ReqIds,
          newStatus \in AuthStatusParams, body \in NotesBodies :
          AuthStatus(p, tok, id, newStatus, body)
    \/ \E p \in Procs : AuthStatusSave(p)
    \/ \E p \in Procs, tok \in Tokens, id \in ReqIds, qrOk \in BOOLEAN :
          AuthVCard(p, tok, id, qrOk)
    \/ \E p \in Procs : AuthVCardSave(p)

AuthSpec == InitProcessed /\ [][AuthNext]_vars

(***************************************************************************)
(* POST /api/clients of the pino variant on a database in which one name   *)
(* has been registered SlugMaxCounter times.                               *)
(***************************************************************************)
FullBody(name) == [fullName |-> name, title |-> Title, phone1 |-> Phone, email1 |-> Email]

\* The document the k-th Create of name "A b" stored: the base slug, then
\* the numeric suffixes 1, 2, ...
CrowdedClient(k) ==
    [PinoNewClient(FullBody(NameAB)) EXCEPT
        !.slug = IF k = 1 THEN PinoBaseSlug(NameAB)
                 ELSE Suffixed(PinoBaseSlug(NameAB), k - 1)]

InitCrowded ==
    /\ variant = "pino"
    /\ clients = [k \in 1..SlugMaxCounter |-> CrowdedClient(k)]
    /\ logs = EmptyBag
    /\ req = [p \in Procs |-> Idle]
    /\ last = Answer("none", 0, 0)
    /\ ops = 0
    /\ pdfSemaphore = NewSemaphore
    /\ dash = DashStart

CrowdedNext ==
    \/ \E p \in Procs, name \in {NameAB, NameAB1}, rnd \in RandomSuffixes :
          PinoCreate(p, FullBody(name), rnd)
    \/ \E p \in Procs, rnd \in RandomSuffixes : PinoSlugFind(p, rnd)
    \/ \E p \in Procs : PinoCreateSave(p)

CrowdedSpec == InitCrowded /\ [][CrowdedNext]_vars

(***************************************************************************)
(* The admin dashboard page talking to the pino variant.                   *)
(***************************************************************************)
DashInit == Init /\ variant = "pino"

DashSpec == DashInit /\ [][DashNext]_vars


(***************************************************************************)
(* Properties.                                                             *)
(***************************************************************************)
IsPrefix(s, t) == Len(s) <= Len(t) /\ SubSeq(t, 1, Len(s)) = s

Range(s) == {s[k] : k \in DOMAIN s}

\* The step is the insert of a new document.
Inserts == Len(clients') = Len(clients) + 1

\* The step answers a request on its arrival, before any await.
AnswersAtOnce == ops' # ops /\ req' = req

\* The step ends the handler of slot p with a response.
Ends(p) == req[p].pc # "done" /\ req'[p].pc = "done"

\* The step is the arrival of a request whose handler goes on in slot p.
Begins(p) == req[p].pc = "done" /\ req'[p].pc # "done"

\* Number of Log entries for client id whose action is in tags.
LogCount(lg, id, tags) ==
    LET hits == {e \in BagToSet(lg) : e[2] = id /\ e[1] \in tags}
    IN  BagCardinality([e \in hits |-> lg[e]])

OwnTags == {"CLIENT_CREATED", "CLIENT_UPDATED / SAVE_INFO", "VCARD_CREATED",
            "STATUS_CHANGED"}
MailTags == {"EMAIL_SENT", "EMAIL_FAILED"}

\* C1: the document a Create persists has status Pending, whatever status
\* the body carried, and a non-empty slug (both variants).
C1_CreatedIsPendingWithSlug ==
    [][Inserts =>
          /\ clients'[Len(clients')].status = "Pending"
          /\ clients'[Len(clients')].slug # Empty]_vars

\* C1 witness: a Create whose body carried status Active was persisted and
\* answered 201.
C1_Witness ==
    /\ last.op = "create"
    /\ last.code = 201
    /\ "INJECTED" \in Range(clients[last.id].history)
    /\ clients[last.id].status = "Pending"

\* C2: no two persisted documents hold the same slug, in every reachable
\* state of every interleaving of the handlers.
C2_SlugsUnique ==
    \A i \in Ids, j \in Ids : i # j => clients[i].slug # clients[j].slug

\* C2 witness: a Create was refused by the index (500 although the body had
\* a name) while documents of the same name exist with distinct slugs.
C2_Witness ==
    /\ Len(clients) >= 2
    /\ \E i \in Ids, j \in Ids :
          /\ i # j
          /\ clients[i].fullName = clients[j].fullName
          /\ clients[i].slug # clients[j].slug

\* C3 (as claimed): a non-empty slug is never changed by any operation.
C3_SlugImmutable ==
    [][\A i \in Ids : clients[i].slug # Empty => clients'[i].slug = clients[i].slug]_vars

\* C4 (as claimed): a Create of a valid document whose display name a
\* persisted document already has succeeds (201) and persists the new
\* document under a slug no other document holds, the base slug with a
\* numeric suffix - also when the other Create saved after this one's
\* lookup.
C4_SameNameCreatesBothSucceed ==
    [][\A p \in Procs :
          (/\ req[p].op = "create"
           /\ req[p].pc = "save"
           /\ Ends(p)
           /\ Trim(req[p].doc.fullName) # Empty
           /\ req[p].doc.slug # Empty
           /\ (variant = "auth" => req[p].doc.phone1 # Empty /\ req[p].doc.email1 # Empty)
           /\ \E i \in Ids : clients[i].fullName = req[p].doc.fullName)
          => /\ Inserts
             /\ last'.code = 201
             /\ \A i \in Ids : clients[i].slug # clients'[Len(clients')].slug
             /\ \E k \in 1..SlugMaxCounter :
                   clients'[Len(clients')].slug = Suffixed(req[p].base, k)]_vars

\* C5 (as claimed): every step leaves each document's history a prefix of
\* its new history.
C5_HistoryAppendOnly ==
    [][\A i \in Ids : IsPrefix(clients[i].history, clients'[i].history)]_vars

\* C6 (as claimed): a step that persists a mutation adds exactly one
\* history entry: a created document has a history of length 1, a changed
\* document has one entry more than before; a step that answers an error
\* leaves every history as it was.
C6_HistoryGrowsByOne ==
    [][/\ Inserts => Len(clients'[Len(clients')].history) = 1
       /\ \A i \in Ids :
             /\ clients'[i] # clients[i] =>
                   Len(clients'[i].history) = Len(clients[i].history) + 1
             /\ last'.code >= 400 /\ last' # last =>
                   Len(clients'[i].history) = Len(clients[i].history)]_vars

\* C7 (as claimed): in the authenticated variant, a step that persists a
\* mutation of a client writes exactly one Log entry, for that client.
C7_ExactlyOneLogEntry ==
    [][(variant = "auth" /\ clients' # clients) =>
          /\ BagCardinality(logs') = BagCardinality(logs) + 1
          /\ LogCount(logs', last'.id, OwnTags \cup MailTags)
                = LogCount(logs, last'.id, OwnTags \cup MailTags) + 1]_vars

\* C7 (amended): in the authenticated variant, an operation that persists
\* a mutation of a client calls logAction once for its own action (twice in
\* vCard creation, the second call for the email): each call writes one
\* entry for that client or is swallowed, so at most one entry of the
\* operation's own action and, in vCard creation only, at most one
\* EMAIL_SENT / EMAIL_FAILED entry are written, and nothing else.
C7_OneLogCallPerAction ==
    [][(variant = "auth" /\ clients' # clients) =>
          LET id == last'.id
              own == LogCount(logs', id, OwnTags) - LogCount(logs, id, OwnTags)
              mail == LogCount(logs', id, MailTags) - LogCount(logs, id, MailTags)
              calls == IF last'.op = "vcard" THEN 2 ELSE 1
          IN  /\ own \in {0, 1}
              /\ mail \in {0, 1}
              /\ last'.op # "vcard" => mail = 0
              /\ own + mail + last'.logErr = calls
              /\ BagCardinality(logs') = BagCardinality(logs) + own + mail]_vars

\* C7 witness: a vCard creation succeeded and wrote both its VCARD_CREATED
\* entry and an EMAIL_SENT entry for the client.
C7_Witness ==
    /\ variant = "auth"
    /\ last.op = "vcard"
    /\ last.code = 200
    /\ last.logErr = 0
    /\ LogCount(logs, last.id, {"VCARD_CREATED"}) = 1
    /\ LogCount(logs, last.id, {"EMAIL_SENT"}) = 1

\* C8: when a Log.create of logAction rejects, the handler has persisted
\* its mutation (the new document, or the document with the operation's
\* history entry as its last one) and sends its success response (201 for
\* Create, 200 for the others).
C8_LogFailureIsSwallowed ==
    [][\A p \in Procs :
          (Ends(p) /\ req[p].pc = "save" /\ last'.logErr > 0) =>
             /\ last'.code = IF req[p].op = "create" THEN 201 ELSE 200
             /\ clients' # clients
             /\ IF req[p].op = "create" THEN Inserts
                ELSE LET h == clients'[req[p].id].history
                         g == req[p].doc.history
                     IN  /\ Len(clients') = Len(clients)
                         /\ Len(h) > 0
                         /\ h[Len(h)] = g[Len(g)]]_vars

\* C8 witness: a status change was answered 200 although its audit-log
\* write was rejected, and the document has the new status.
C8_Witness ==
    /\ variant = "auth"
    /\ last.op = "status"
    /\ last.code = 200
    /\ last.logErr = 1
    /\ clients[last.id].status = "Disabled"
    /\ LogCount(logs, last.id, {"STATUS_CHANGED"}) = 0

\* C9: a vCard creation whose upload or QR generation fails answers 500,
\* sends no email, and no step of it, from its arrival to that answer,
\* writes to the collection.
C9_FailedUploadChangesNothing ==
    [][/\ \A p \in Procs :
             /\ (req[p].op = "vcard" /\ req[p].pc = "upload" /\ Ends(p)) =>
                   /\ last'.code = 500
                   /\ last'.mailed = "no"
                   /\ clients' = clients
             /\ (req[p].op = "vcard" /\ req[p].pc \in {"find", "upload"}
                   /\ req'[p] # req[p]) => clients' = clients
             /\ (Begins(p) /\ req'[p].op = "vcard") => clients' = clients
       /\ (AnswersAtOnce /\ last'.op = "vcard" /\ last'.code = 500) =>
             /\ clients' = clients
             /\ last'.mailed = "no"]_vars

\* C9 witness: the upload of a pending client's vCard failed; the document
\* is still Pending, without artifact URLs and with its creation entry only.
C9_Witness ==
    /\ variant = "pino"
    /\ last.op = "vcard"
    /\ last.code = 500
    /\ last.uploaded
    /\ last.mailed = "no"
    /\ clients[last.id].status = "Pending"
    /\ clients[last.id].vcardUrl = Empty
    /\ clients[last.id].qrCodeUrl = Empty
    /\ clients[last.id].history = <<"CLIENT_CREATED">>

\* C10: an authorized vCard creation on an id that resolves to no document
\* is answered 404, and on a document without a name or without phone1 and
\* email1 it is answered 400; both are answered at once, with no write, no
\* upload and no email; a handler goes on only for a complete document.
C10_NotFoundVersusInvalid ==
    [][/\ (AnswersAtOnce /\ last'.op = "vcard" /\ last'.code \notin {401, 403}) =>
             /\ last'.code = 404 <=> last'.id \notin Ids
             /\ (last'.id \in Ids
                   /\ (clients[last'.id].fullName = Empty
                         \/ (clients[last'.id].phone1 = Empty
                               /\ clients[last'.id].email1 = Empty)))
                   => last'.code = 400
             /\ clients' = clients
             /\ ~last'.uploaded
             /\ last'.mailed = "no"
       /\ \A p \in Procs :
             (Begins(p) /\ req'[p].op = "vcard") =>
                /\ req'[p].id \in Ids
                /\ clients[req'[p].id].fullName # Empty
                /\ clients[req'[p].id].phone1 # Empty
                      \/ clients[req'[p].id].email1 # Empty]_vars

\* C10 witness: the vCard creation for a document without phone1 and email1
\* was answered 400.
C10_Witness ==
    /\ last.op = "vcard"
    /\ last.code = 400
    /\ last.id \in Ids
    /\ clients[last.id].phone1 = Empty
    /\ clients[last.id].email1 = Empty
    /\ clients[last.id].status = "Pending"
    /\ ~last.uploaded

\* C11 (as claimed): when the notification email of a vCard creation fails,
\* the response is still the success response (200), the document is saved
\* Active with its artifact URLs, and the response reports the email
\* failure (both variants).
C11_EmailFailureIsReported ==
    [][\A p \in Procs :
          (req[p].op = "vcard" /\ req[p].pc = "save" /\ Ends(p)
             /\ last'.mailed = "failed") =>
             /\ last'.code = 200
             /\ clients'[req[p].id].status = "Active"
             /\ clients'[req[p].id].vcardUrl # Empty
             /\ clients'[req[p].id].qrCodeUrl # Empty
             /\ last'.emailError]_vars

\* The notes of a status request are missing or shorter than the minimum.
NotesTooShort(body) ==
    \/ "notes" \notin DOMAIN body
    \/ Len(body.notes) < 5

\* C12 (as claimed): a ChangeStatus request of an authorized caller for an
\* existing client whose newStatus is outside the variant's allowed set, or
\* whose notes are missing or shorter than five characters, is answered 400
\* at once and leaves the collection as it was (both variants).
C12_StatusRequestValidated ==
    [][\A p \in Procs, id \in Ids, newStatus \in StatusParams, body \in NotesBodies :
          (/\ \/ NotesTooShort(body)
              \/ newStatus \notin (IF variant = "auth"
                                   THEN {"Active", "Disabled", "Deleted"}
                                   ELSE {"Pending", "Active", "Suspended", "Deleted"})
           /\ \/ AuthStatus(p, "admin", id, newStatus, body)
              \/ PinoStatus(p, id, newStatus, body))
          => /\ AnswersAtOnce
             /\ last'.code = 400
             /\ clients' = clients]_vars

\* What a request to mark client id Deleted does on arrival in slot p,
\* whatever its notes: 404 at once for an unknown id; otherwise the handler
\* goes on to save the loaded document with status Deleted and one more
\* history entry.
MarksDeleted(p, id) ==
    /\ clients' = clients
    /\ IF id \notin Ids
       THEN AnswersAtOnce /\ last'.code = 404
       ELSE /\ Begins(p)
            /\ req'[p].pc = "save"
            /\ req'[p].id = id
            /\ req'[p].orig = clients[id]
            /\ req'[p].doc.status = "Deleted"
            /\ Len(req'[p].doc.history) = Len(clients[id].history) + 1
            /\ [req'[p].doc EXCEPT !.status = clients[id].status,
                                   !.history = clients[id].history] = clients[id]

C14_DeletedIsTerminal ==
    [][/\ Len(clients') >= Len(clients)
       /\ \A i \in Ids :
             clients[i].status = "Deleted" => clients'[i].status = "Deleted"]_vars

\* The PDF requests between acquire() resolving and release().
Holders == {p \in Procs : req[p].op = "pdf" /\ req[p].pc \in {"find", "log"}}

\* The PDF requests whose acquire() has not resolved yet.
Queued == {p \in Procs : req[p].op = "pdf" /\ req[p].pc \in {"acquire", "overdue"}}

\* C15: at most one PDF request is between acquiring and releasing
\* pdfSemaphore in every reachable state.
C15_OneRenderAtATime == Cardinality(Holders) <= 1

\* C15 witness: one PDF request holds the permit while another is queued.
C15_Witness ==
    /\ Cardinality(Holders) = 1
    /\ Cardinality(Queued) = 1
    /\ pdfSemaphore.count = 0

\* C16 (as claimed): no PDF request is still queued on the gate once the
\* bounded wait has passed (it has been answered 503 instead).
C16_NoWaitBeyondTimeout ==
    \A p \in Procs : ~(req[p].op = "pdf" /\ req[p].pc = "overdue")

\* C17: the permit is given back exactly once by every PDF request that
\* got it - the free permits and the holders always add up to one, and a
\* handler that ends (200, 404 or 500) leaves one more free permit - so a
\* held gate becomes free again and every queued request is admitted.
C17_GateAlwaysReleased ==
    /\ [](pdfSemaphore.count + Cardinality(Holders) = 1)
    /\ [][\A p \in Procs :
            (p \in Holders /\ Ends(p)) =>
               /\ pdfSemaphore'.count = pdfSemaphore.count + 1
               /\ last'.code \in {200, 404, 500}]_vars
    /\ (Holders # {}) ~> (pdfSemaphore.count = 1)
    /\ \A p \in Procs : (p \in Queued) ~> (p \in Holders)

\* C17 witness: a PDF request for an unknown id was answered 404 and the
\* permit is free again while the next request is still queued.
C17_Witness ==
    /\ last.op = "pdf"
    /\ last.code = 404
    /\ pdfSemaphore.count = 1
    /\ Queued # {}

\* C18 (as claimed): the save of an Update leaves vcardUrl and qrCodeUrl as
\* they were, leaves the slug as it was unless the name changes, and only
\* appends its own entry to the history, whatever keys the body carried
\* (both variants).
C18_UpdateStoresWhitelistOnly ==
    [][\A p \in Procs :
          (req[p].op = "update" /\ req[p].pc = "save" /\ Ends(p)) =>
             LET old == clients[req[p].id]
                 new == clients'[req[p].id]
             IN  /\ new.vcardUrl = old.vcardUrl
                 /\ new.qrCodeUrl = old.qrCodeUrl
                 /\ new.fullName = old.fullName => new.slug = old.slug
                 /\ IsPrefix(old.history, new.history)
                 /\ Len(new.history) <= Len(old.history) + 1]_vars

\* C19 (as claimed): the document an authorized Update carrying socialLinks
\* goes on to save has, in every sub-field the body supplied, the supplied
\* value and, in every other sub-field, the value the record had - also
\* when the record had no sub-object.
C19_NestedObjectsAreMerged ==
    [][\A p \in Procs, id \in Ids, body \in UpdateBodies, rnd \in RandomSuffixes :
          (/\ Has(body, "socialLinks")
           /\ \/ AuthUpdate(p, "admin", id, body)
              \/ PinoUpdate(p, id, body, rnd))
          => /\ Begins(p)
             /\ \A k \in LinkKeys :
                   req'[p].doc.socialLinks[k] =
                      IF k \in DOMAIN body.socialLinks THEN body.socialLinks[k]
                      ELSE clients[id].socialLinks[k]]_vars

\* C20: a public lookup (GET /vcard/:id, GET /:slug) answers with profile
\* data (200) only for a client whose status is Active at that moment; for
\* a client that is Disabled, Suspended or Deleted it answers 404 (first
\* program), the fallback redirect 302 (second program) or, when the query
\* itself fails, 500; it changes nothing.
C20_HiddenProfilesNotServed ==
    [][/\ (AnswersAtOnce /\ last'.op = "lookup") =>
             /\ clients' = clients
             /\ last'.code \in {200, 302, 404, 500}
             /\ last'.code = 200 =>
                   /\ last'.id \in Ids
                   /\ clients[last'.id].status = "Active"
       /\ \A p \in Procs, id \in Ids, findOk \in BOOLEAN :
             (/\ clients[id].status \in {"Disabled", "Suspended", "Deleted"}
              /\ \/ AuthPublicVCard(p, id, findOk)
                 \/ PinoPublicSlug(p, clients[id].slug, findOk))
             => last'.code \in {302, 404, 500}]_vars

\* C20 witness: a lookup of a client that was made Active and then
\* Suspended was answered with the fallback redirect.
C20_Witness ==
    /\ last.op = "lookup"
    /\ last.code \in {302, 404}
    /\ last.id \in Ids
    /\ clients[last.id].status \in {"Disabled", "Suspended", "Deleted"}
    /\ Len(clients[last.id].history) >= 2

\* Tags of the history entries an Update pushes.
UpdateTags == {"CLIENT_UPDATED", "CLIENT_UPDATED / SAVE_INFO"}

\* The record of request r was saved by another Update after r loaded it.
UpdatedSinceLoad(r) ==
    LET h == clients[r.id].history
    IN  /\ clients[r.id] # r.orig
        /\ h # <<>>
        /\ h[Len(h)] \in UpdateTags

\* C21 (as claimed): the save of an Update whose record another Update
\* saved after this one loaded it is not rejected: it answers 200, and
\* every field this Update changed holds this Update's value afterwards
\* (the document being valid and its slug free).
C21_LastWriteWins ==
    [][\A p \in Procs :
          (/\ req[p].op = "update"
           /\ req[p].pc = "save"
           /\ Ends(p)
           /\ UpdatedSinceLoad(req[p])
           /\ Valid(req[p].doc)
           /\ UniqueOk(req[p].id, req[p].doc.slug))
          => /\ last'.code = 200
             /\ \A f \in {"fullName", "phone1", "email1", "status", "slug"} :
                   req[p].doc[f] # req[p].orig[f] =>
                      clients'[req[p].id][f] = req[p].doc[f]]_vars

\* The contact fields the vCard payload is built from.
ContactFields(doc) == <<doc.fullName, doc.phone1, doc.email1>>

\* C22 (as claimed): generateVcardContent is deterministic: two vCard
\* creations whose clients hold identical contact fields have formatted
\* identical payloads, whichever was called first.
C22_PayloadDeterministic ==
    \A p \in Procs, q \in Procs :
        (/\ req[p].op = "vcard" /\ req[p].vcf # <<>>
         /\ req[q].op = "vcard" /\ req[q].vcf # <<>>
         /\ ContactFields(req[p].doc) = ContactFields(req[q].doc))
        => req[p].vcf = req[q].vcf

\* The database AuthSpec starts from is one the authenticated variant
\* reaches from the empty one.
ProcessedClientReached ==
    /\ clients = <<ProcessedClient>>
    /\ logs = ProcessedLogs
    /\ \A p \in Procs : req[p] = Idle

\* C23: in the authenticated variant an admin's vCard request for a client
\* whose status is not Processed is answered 400 at once and changes
\* neither a record nor the log, and sends no email; a vCard creation that
\* succeeds had loaded a Processed client whose history holds an Update;
\* and the vCard request that directly follows a successful one for the
\* same client is answered 400 without an email.
C23_VCardOnlyWhenProcessed ==
    [][/\ \A p \in Procs, id \in Ids, qrOk \in BOOLEAN :
            (AuthVCard(p, "admin", id, qrOk) /\ clients[id].status # "Processed")
            => /\ last' = Answer("vcard", id, 400)
               /\ req'[p] = Idle
               /\ clients' = clients
               /\ logs' = logs
       /\ \A p \in Procs :
            (/\ req[p].op = "vcard"
             /\ Ends(p)
             /\ last'.code = 200)
            => /\ req[p].orig.status = "Processed"
               /\ \E k \in DOMAIN req[p].orig.history :
                     req[p].orig.history[k] \in UpdateTags
       /\ \A p \in Procs, qrOk \in BOOLEAN :
            (/\ last.op = "vcard"
             /\ last.code = 200
             /\ AuthVCard(p, "admin", last.id, qrOk))
            => /\ last' = Answer("vcard", last.id, 400)
               /\ logs' = logs]_vars

\* A client made Active by a vCard creation, and a further vCard request
\* for it just answered 400.
C23_Witness ==
    /\ variant = "auth"
    /\ last = Answer("vcard", 1, 400)
    /\ clients[1].status = "Active"
    /\ clients[1].history[Len(clients[1].history)] = "VCARD_CREATED"
    /\ LogCount(logs, 1, MailTags) = 1

\* The step is the arrival of an Update, a vCard creation or a status
\* change of the authenticated variant carrying Authorization header tok.
AuthMutationArrives(p, tok) ==
    \E id \in ReqIds :
        \/ \E body \in UpdateBodies : AuthUpdate(p, tok, id, body)
        \/ \E qrOk \in BOOLEAN : AuthVCard(p, tok, id, qrOk)
        \/ \E newStatus \in StatusParams, body \in NotesBodies :
              AuthStatus(p, tok, id, newStatus, body)

\* C24: in the authenticated variant an Update, vCard creation or status
\* change that carries no token, an invalid or expired token (401) or a
\* staff token (403) is answered at once, and no client record, history or
\* Log entry changes; so only requests with an admin token reach a save.
C24_MutationsNeedAdminToken ==
    [][\A p \in Procs, tok \in Tokens \ {"admin"} :
          AuthMutationArrives(p, tok)
          => /\ last'.code = (IF tok = "staff" THEN 403 ELSE 401)
             /\ req'[p] = Idle
             /\ clients' = clients
             /\ logs' = logs]_vars

\* A staff token was refused a mutation of an existing client, which is
\* still as it was created.
C24_Witness ==
    /\ variant = "auth"
    /\ last.code = 403
    /\ last.op \in {"update", "vcard", "status"}
    /\ last.id \in Ids
    /\ clients[last.id].status = "Pending"
    /\ clients[last.id].history = <<>>
    /\ LogCount(logs, last.id, OwnTags \ {"CLIENT_CREATED"}) = 0

\* C25 (as claimed): a GET /health request is answered by the health-check
\* handler: 200 when the database connection is ready, 503 otherwise.
C25_HealthAnsweredByHealthHandler ==
    [][\A p \in Procs, findOk \in BOOLEAN, dbUp \in BOOLEAN :
          PinoGet(p, HealthPath, findOk, dbUp)
          => /\ last'.op = "health"
             /\ last'.code = (IF dbUp THEN 200 ELSE 503)]_vars

\* C26 (as claimed): the slug generateUniqueSlug returns to a Create is
\* held by no record existing when it returns, on the numeric path and on
\* the random fallback alike.
C26_ReturnedSlugIsFree ==
    [][\A p \in Procs :
          (/\ req'[p].op = "create"
           /\ req[p].pc # "save"
           /\ req'[p].pc = "save")
          => ~SlugTaken(req'[p].doc.slug)]_vars

\* C27 (as claimed): in the authenticated variant every client whose
\* status is Active has a non-empty vcardUrl and a non-empty qrCodeUrl.
C27_ActiveHasArtifacts ==
    variant = "auth" =>
        \A i \in Ids :
            clients[i].status = "Active"
            => clients[i].vcardUrl # Empty /\ clients[i].qrCodeUrl # Empty

\* Operations that load a client, change it and save it.
MutatingOps == {"update", "status", "delete", "vcard"}

\* C28: when a mutating operation saves a client that another operation
\* has saved since this one loaded it, and the save succeeds, the stored
\* history keeps every entry it had, the other operation's included, and
\* gains this operation's entry; the status afterwards is the one this
\* operation set or the one the other save left.
C28_InterleavedKeepBothEntries ==
    [][\A p \in Procs :
          (/\ req[p].op \in MutatingOps
           /\ req[p].pc = "save"
           /\ Ends(p)
           /\ clients[req[p].id] # req[p].orig
           /\ last'.code = 200)
          => LET id == req[p].id
             IN  /\ Pushed(req[p]) # <<>>
                 /\ clients'[id].history = clients[id].history \o Pushed(req[p])
                 /\ clients'[id].status \in {req[p].doc.status, clients[id].status}]_vars

\* A status change is about to save a client that an Update, which loaded
\* the same document, has just saved.
C28_Witness ==
    \E p \in Procs :
        /\ req[p].op = "status"
        /\ req[p].pc = "save"
        /\ last.op = "update"
        /\ last.code = 200
        /\ last.id = req[p].id
        /\ clients[req[p].id].history = Append(req[p].orig.history, "CLIENT_UPDATED")
        /\ UpdateOutcome(req[p]) = "ok"

\* No fetchAllClients or changeClientStatus call is in flight.
DashAtRest ==
    /\ \A f \in Callers : dash.fetch[f].pc = "off"
    /\ \A c \in Changes : dash.change[c].pc \in {"off", "ok", "failed"}

\* C29 (as claimed): once every call has ended, the rows the table shows
\* come from a list fetched after each status change that got a
\* successful response (a failed fetch shows the error instead); no
\* fetchAllClients call makes more than MAX_RETRIES attempts; and
\* isFetching is true only while a fetchAllClients call is running.
C29_TableFreshAfterStatusChange ==
    /\ (DashAtRest /\ dash.table = "rows")
       => \A c \in Changes :
             dash.change[c].pc = "ok" => dash.allClientData >= dash.change[c].rev
    /\ \A f \in Callers : dash.fetch[f].attempt <= MAX_RETRIES
    /\ dash.isFetching <=> \E f \in Callers : dash.fetch[f].pc # "off"

\* C30: in the authenticated variant a client whose status is not Pending
\* never gets status Pending again, whatever the requests carry, and an
\* Update or status change that succeeds leaves its client with a status
\* other than Pending.
C30_NeverBackToPending ==
    [][/\ \A i \in Ids : clients[i].status # "Pending" => clients'[i].status # "Pending"
       /\ \A p \in Procs :
            (/\ req[p].op \in {"update", "status"}
             /\ Ends(p)
             /\ last'.code = 200)
            => clients'[req[p].id].status # "Pending"]_vars

\* A client that left Pending and has since been through a vCard
\* creation, a status change and a further Update.
C30_Witness ==
    /\ variant = "auth"
    /\ Len(clients) = 1
    /\ clients[1].status = "Processed"
    /\ Len(clients[1].history) = 4
    /\ clients[1].history[2] = "VCARD_CREATED"
    /\ clients[1].history[4] = "CLIENT_UPDATED / SAVE_INFO"
    /\ last = Answer("update", 1, 200)

====
